---- MODULE Spec2Model ----
(***************************************************************************)
(* Schema migration engine of src/migrate.js: the SQL statement splitter   *)
(* (splitSqlStatements), the ledger table _migrations, the transactional   *)
(* applier (applyMigrationFile) and the runner (runMigrations).            *)
(*                                                                         *)
(* A text is a sequence of characters, each a string.  JavaScript string   *)
(* indices are kept 0-based (At).                                          *)
(***************************************************************************)
EXTENDS Integers, Sequences, FiniteSets, TLC

(***************************************************************************)
(* Bounds of the model.                                                    *)
(***************************************************************************)
\* longest enumerated splitter input
MaxLen == 4

\* the backtick character (a name, since a TLA+ string cannot hold it)
Backtick == "bt"

\* characters the enumerated splitter inputs are built from
Alphabet == {"'", "\"", Backtick, ";", "-", "/", "*", "\n", "\\", "a"}

\* sql[k] for k outside the string
Undefined == "undefined"

\* splitSqlStatements has not returned yet, or has returned the array a
NotReturned == [done |-> FALSE, value |-> << >>]

Returned(a) == [done |-> TRUE, value |-> a]

\* String.prototype.trim strips these (of the characters used here)
Whitespace == {" ", "\n"}

(***************************************************************************)
(* Texts used as concrete inputs.                                          *)
(***************************************************************************)
\* SELECT 'a;b'; SELECT 1;
TextQuoted ==
  <<"S","E","L","E","C","T"," ","'","a",";","b","'",";"," ",
    "S","E","L","E","C","T"," ","1",";">>

\* -- comment\nSELECT 1;
TextLineComment ==
  <<"-","-"," ","c","o","m","m","e","n","t","\n",
    "S","E","L","E","C","T"," ","1",";">>

\* SELECT 1; /* x; y */ SELECT 2;
TextBlockComment ==
  <<"S","E","L","E","C","T"," ","1",";"," ","/","*"," ","x",";"," ","y"," ","*","/"," ",
    "S","E","L","E","C","T"," ","2",";">>

\* SELECT 1; SELECT 2
TextTrailing ==
  <<"S","E","L","E","C","T"," ","1",";"," ","S","E","L","E","C","T"," ","2">>

\* a "--;" b -- ';\nc; BT/*BT   (BT the backtick)
TextMixed ==
  <<"a"," ","\"","-","-",";","\""," ","b"," ","-","-"," ","'",";","\n","c",";"," ",Backtick,"/","*",Backtick>>

StmtSelect1 == <<"S","E","L","E","C","T"," ","1">>
StmtSelect2 == <<"S","E","L","E","C","T"," ","2">>
StmtSelectQuoted == <<"S","E","L","E","C","T"," ","'","a",";","b","'">>

\* -/**/-
TextRejoin == <<"-","/","*","*","/","-">>

\* \n'a;b'
TextLeadingNewline == <<"\n","'","a",";","b","'">>

Examples ==
  {TextQuoted, TextLineComment, TextBlockComment, TextTrailing, TextMixed, TextRejoin,
   TextLeadingNewline}

RECURSIVE TextsUpTo(_)
TextsUpTo(n) ==
  IF n = 0 THEN {<< >>}
  ELSE LET shorter == TextsUpTo(n - 1)
       IN  shorter \cup {Append(t, c) : t \in {s \in shorter : Len(s) = n - 1}, c \in Alphabet}

SplitInputs == TextsUpTo(MaxLen) \cup Examples

(***************************************************************************)
(* splitSqlStatements                                                      *)
(***************************************************************************)
At(sql, k) == IF k >= 0 /\ k < Len(sql) THEN sql[k + 1] ELSE Undefined

RECURSIVE TrimStart(_)
TrimStart(s) ==
  IF s # << >> /\ Head(s) \in Whitespace THEN TrimStart(Tail(s)) ELSE s

RECURSIVE TrimEnd(_)
TrimEnd(s) ==
  IF s # << >> /\ s[Len(s)] \in Whitespace THEN TrimEnd(SubSeq(s, 1, Len(s) - 1)) ELSE s

Trim(s) == TrimEnd(TrimStart(s))

\* the locals of splitSqlStatements before the loop
LexInit ==
  [ statements    |-> << >>,
    current       |-> << >>,
    inSingle      |-> FALSE,
    inDouble      |-> FALSE,
    inBacktick    |-> FALSE,
    inLineComment |-> FALSE,
    inBlockComment|-> FALSE,
    i             |-> 0 ]

InQuote(st) == st.inSingle \/ st.inDouble \/ st.inBacktick

LineCommentStepDropNewline(st, ch) ==
  IF ch = "\n"
  THEN [st EXCEPT !.inLineComment = FALSE, !.i = @ + 1]
  ELSE [st EXCEPT !.i = @ + 1]

\* if (inLineComment) { ... continue; }
LineCommentStep(st, ch) ==
  IF ch = "\n"
  THEN [st EXCEPT !.inLineComment = FALSE, !.current = Append(@, ch), !.i = @ + 1]
  ELSE [st EXCEPT !.i = @ + 1]

BlockCommentStepKeepSlash(st, ch, next) ==
  IF ch = "*" /\ next = "/"
  THEN [st EXCEPT !.inBlockComment = FALSE, !.i = @ + 1]
  ELSE [st EXCEPT !.i = @ + 1]

\* if (inBlockComment) { ... continue; }
BlockCommentStep(st, ch, next) ==
  IF ch = "*" /\ next = "/"
  THEN [st EXCEPT !.inBlockComment = FALSE, !.i = @ + 2]
  ELSE [st EXCEPT !.i = @ + 1]

\* if (!inSingle && !inDouble && !inBacktick) if (ch === '-' && next === '-')
StartsLineComment(st, ch, next) == ~InQuote(st) /\ ch = "-" /\ next = "-"

\* if (!inSingle && !inDouble && !inBacktick) if (ch === '/' && next === '*')
StartsBlockComment(st, ch, next) == ~InQuote(st) /\ ch = "/" /\ next = "*"

ToggleUnguarded(st, ch, prev) ==
  IF ch = "'" /\ prev # "\\"
    THEN [st EXCEPT !.inSingle = ~@]
  ELSE IF ch = "\"" /\ prev # "\\"
    THEN [st EXCEPT !.inDouble = ~@]
  ELSE IF ch = Backtick /\ prev # "\\"
    THEN [st EXCEPT !.inBacktick = ~@]
  ELSE st

ToggleIgnoresEscape(st, ch, prev) ==
  IF ~st.inDouble /\ ~st.inBacktick /\ ch = "'"
    THEN [st EXCEPT !.inSingle = ~@]
  ELSE IF ~st.inSingle /\ ~st.inBacktick /\ ch = "\""
    THEN [st EXCEPT !.inDouble = ~@]
  ELSE IF ~st.inSingle /\ ~st.inDouble /\ ch = Backtick
    THEN [st EXCEPT !.inBacktick = ~@]
  ELSE st

ToggleNotAtStart(st, ch, prev) ==
  IF prev = Undefined THEN st
  ELSE IF ~st.inDouble /\ ~st.inBacktick /\ ch = "'" /\ prev # "\\"
    THEN [st EXCEPT !.inSingle = ~@]
  ELSE IF ~st.inSingle /\ ~st.inBacktick /\ ch = "\"" /\ prev # "\\"
    THEN [st EXCEPT !.inDouble = ~@]
  ELSE IF ~st.inSingle /\ ~st.inDouble /\ ch = Backtick /\ prev # "\\"
    THEN [st EXCEPT !.inBacktick = ~@]
  ELSE st

\* the three string toggles, an if / else-if / else-if chain
Toggle(st, ch, prev) ==
  IF ~st.inDouble /\ ~st.inBacktick /\ ch = "'" /\ prev # "\\"
    THEN [st EXCEPT !.inSingle = ~@]
  ELSE IF ~st.inSingle /\ ~st.inBacktick /\ ch = "\"" /\ prev # "\\"
    THEN [st EXCEPT !.inDouble = ~@]
  ELSE IF ~st.inSingle /\ ~st.inDouble /\ ch = Backtick /\ prev # "\\"
    THEN [st EXCEPT !.inBacktick = ~@]
  ELSE st

EndsStatementAnywhere(st, ch) == ch = ";"

\* if (!inSingle && !inDouble && !inBacktick && ch === ';')
EndsStatement(st, ch) == ~InQuote(st) /\ ch = ";"

PushAlways(statements, current) == Append(statements, Trim(current))

\* if (current.trim()) statements.push(current.trim());
PushTrimmed(statements, current) ==
  IF Trim(current) # << >> THEN Append(statements, Trim(current)) ELSE statements

\* one iteration of the for loop, i already known to be < sql.length
SplitStep(st, sql) ==
  LET ch   == At(sql, st.i)
      next == At(sql, st.i + 1)
      prev == At(sql, st.i - 1)
  IN  IF st.inLineComment THEN LineCommentStep(st, ch)
      ELSE IF st.inBlockComment THEN BlockCommentStep(st, ch, next)
      ELSE IF StartsLineComment(st, ch, next)
        THEN [st EXCEPT !.inLineComment = TRUE, !.i = @ + 2]
      ELSE IF StartsBlockComment(st, ch, next)
        THEN [st EXCEPT !.inBlockComment = TRUE, !.i = @ + 2]
      ELSE LET t == Toggle(st, ch, prev)
           IN  IF EndsStatement(t, ch)
               THEN [t EXCEPT !.statements = PushTrimmed(@, t.current),
                              !.current = << >>, !.i = @ + 1]
               ELSE [t EXCEPT !.current = Append(@, ch), !.i = @ + 1]

SplitReturnDropsTail(st) == st.statements

\* the code after the loop: the trailing statement, then return statements
SplitReturn(st) == PushTrimmed(st.statements, st.current)

RECURSIVE SplitFrom(_, _)
SplitFrom(st, sql) ==
  IF st.i < Len(sql) THEN SplitFrom(SplitStep(st, sql), sql) ELSE SplitReturn(st)

splitSqlStatements(sql) == SplitFrom(LexInit, sql)

(***************************************************************************)
(* The migrations directory.  File names are texts, so that .sort() and    *)
(* .endsWith('.sql') are computed on their characters.                     *)
(***************************************************************************)
File01b == <<"0","1","-","b",".","s","q","l">>
File02a == <<"0","2","-","a",".","s","q","l">>
File03bak == <<"0","3",".","s","q","l",".","b","a","k">>
File10 == <<"1","0",".","s","q","l">>

\* what readdirSync(MIGRATIONS_DIR) holds, in no particular order
DirEntries == {File01b, File02a, File03bak, File10}

\* the text of each file: two statements, none (a comment), one, one
FileText(f) ==
  IF f = File01b THEN <<"a", ";", "\n", "b", ";">>
  ELSE IF f = File02a THEN <<"-", "-", "a", "\n">>
  ELSE IF f = File03bak THEN <<"c">>
  ELSE <<"d", ";">>

\* UTF-16 code units of the characters of the file names
CharCode ==
  ("-" :> 45) @@ ("." :> 46) @@ ("0" :> 48) @@ ("1" :> 49) @@ ("2" :> 50) @@
  ("3" :> 51) @@ ("a" :> 97) @@ ("b" :> 98) @@ ("k" :> 107) @@ ("l" :> 108) @@
  ("q" :> 113) @@ ("s" :> 115)

\* a < b for strings: the default comparison of Array.prototype.sort
RECURSIVE StrLess(_, _)
StrLess(a, b) ==
  IF b = << >> THEN FALSE
  ELSE IF a = << >> THEN TRUE
  ELSE IF Head(a) # Head(b) THEN CharCode[Head(a)] < CharCode[Head(b)]
  ELSE StrLess(Tail(a), Tail(b))

RECURSIVE InsertSorted(_, _)
InsertSorted(x, seq) ==
  IF seq = << >> THEN <<x>>
  ELSE IF StrLess(x, Head(seq)) THEN <<x>> \o seq
  ELSE <<Head(seq)>> \o InsertSorted(x, Tail(seq))

Unsorted(seq) == seq

\* .sort()
RECURSIVE Sort(_)
Sort(seq) == IF seq = << >> THEN << >> ELSE InsertSorted(Head(seq), Sort(Tail(seq)))

DotSql == <<".", "s", "q", "l">>

\* f.endsWith('.sql')
EndsWithSql(f) == Len(f) >= 4 /\ SubSeq(f, Len(f) - 3, Len(f)) = DotSql

FilterNothing(seq) == seq

\* .filter((f) => f.endsWith('.sql'))
FilterSql(seq) == SelectSeq(seq, EndsWithSql)

\* every order in which readdirSync may return the entries
Listings ==
  {l \in [1..Cardinality(DirEntries) -> DirEntries] : \A e \in DirEntries : \E k \in DOMAIN l : l[k] = e}

(***************************************************************************)
(* Database errors.                                                        *)
(***************************************************************************)
ToleratedCodes ==
  {"ER_DUP_FIELDNAME", "ER_TABLE_EXISTS_ERROR", "ER_DUP_KEYNAME", "ER_CANT_DROP_FIELD_OR_KEY"}

\* codes a migration statement may fail with; the last two are not tolerated
StatementCodes == ToleratedCodes \cup {"ER_PARSE_ERROR", "ER_NO_SUCH_TABLE"}

Outcomes == {"ok"} \cup StatementCodes

IsTolerableAlways(code) == TRUE

IsTolerableNoDrop(code) ==
  code \in {"ER_DUP_FIELDNAME", "ER_TABLE_EXISTS_ERROR", "ER_DUP_KEYNAME", "ER_NO_SUCH_TABLE"}

\* err.code === 'ER_DUP_FIELDNAME' || ... || err.code === 'ER_CANT_DROP_FIELD_OR_KEY'
IsTolerable(code) == code \in ToleratedCodes

NoFile == << >>

NoErr == [kind |-> "none", op |-> "", code |-> "", file |-> NoFile, stmt |-> 0]

StorageErr(op, f) == [kind |-> "storage", op |-> op, code |-> "ECONNRESET", file |-> f, stmt |-> 0]

StatementErr(code, f, k) == [kind |-> "statement", op |-> "query", code |-> code, file |-> f, stmt |-> k]

ReadErr(f) == [kind |-> "read", op |-> "readFileSync", code |-> "EIO", file |-> f, stmt |-> 0]

ErrorWithoutCause(e) == [code |-> "ERROR", sql |-> 0, name |-> NoFile]

\* the exception object of e: the driver's error, with its code and the statement it
\* was raised for; catch (err) { ...; throw err; } rethrows it as it is, and nothing
\* puts the migration's name on it
ErrorObject(e) == [code |-> e.code, sql |-> e.stmt, name |-> NoFile]

\* console.log of line 101: the file name and the first line of err.message
LineSkipping(f, code) == [line |-> "Skipping (already applied)", file |-> f, error |-> code]

\* console.log('Processed migration:', fileName)
LineProcessed(f) == [line |-> "Processed migration", file |-> f, error |-> ""]

\* console.error('Failed migration:', fileName, 'Error:', err.message)
LineFailed(f, code) == [line |-> "Failed migration", file |-> f, error |-> code]

NoTx == [open |-> FALSE, effects |-> {}, inserts |-> << >>]

(***************************************************************************)
(* State.                                                                  *)
(***************************************************************************)
\* runs of the single runner
MaxRuns == 2

\* runs of each of two racing runners
MaxRaceRuns == 1

\* runner processes (node migrate.js); the engine is meant to run as one
Runners == {1, 2}

VARIABLES
  sql,          \* splitSqlStatements: the argument
  lex,          \* splitSqlStatements: the locals
  ret,          \* splitSqlStatements: whether it has returned, and the array returned
  active,       \* the runner processes that exist
  dirExists,    \* fs.existsSync(MIGRATIONS_DIR)
  tableExists,  \* database: the table _migrations exists
  ledger,       \* database: committed rows of _migrations (column name), oldest first
  schema,       \* database: committed effects of migration statements, <<file, k>>
  tx,           \* database: per runner, the transaction of its connection
  commits,      \* history: <<fileName, statements executed>> of each committed transaction
  held,         \* per runner, connections taken from the pool and not released
  pc,           \* per runner, the await it is at
  applied,      \* runMigrations: const applied
  files,        \* runMigrations: const files
  idx,          \* runMigrations: position of the for loop in files, from 1
  cur,          \* applyMigrationFile: fileName
  stmts,        \* applyMigrationFile: const statements
  sidx,         \* applyMigrationFile: position of the for loop in statements, from 1
  err,          \* the exception in flight, NoErr if none
  attempted,    \* history, per run: the files handed to applyMigrationFile
  readLog,      \* history, per run: the files read with readFileSync
  txLog,        \* history, per applyMigrationFile call: <<k, outcome>> of each conn.query(stmt)
  stmtCount,    \* history, per run: number of conn.query(stmt) calls
  txCount,      \* history, per run: number of beginTransaction calls
  runsLeft,     \* per runner, the runs it may still start
  lastOutcome,  \* per runner, how its previous run ended
  lastFailed,   \* per runner, the file whose applyMigrationFile call failed its previous run
  log           \* history, per applyMigrationFile call: the lines it wrote to the console

splitVars == <<sql, lex, ret>>

dbVars == <<tableExists, ledger, schema, tx, commits>>

runVars ==
  <<active, dirExists, held, pc, applied, files, idx, cur, stmts, sidx, err,
    attempted, readLog, txLog, stmtCount, txCount, runsLeft, lastOutcome,
    lastFailed, log>>

vars == <<splitVars, dbVars, runVars>>

\* the ledger column name as a set
Names(rows) == {rows[k] : k \in DOMAIN rows}

\* the files a run takes as migration sources
Sources == IF dirExists THEN {f \in DirEntries : EndsWithSql(f)} ELSE {}

Terminal == {"Completed", "Failed"}

InitDb ==
  /\ tableExists = FALSE
  /\ ledger = << >>
  /\ schema = {}
  /\ tx = [r \in Runners |-> NoTx]
  /\ commits = {}

InitRunners(a, n) ==
  /\ active = a
  /\ held = [r \in Runners |-> 0]
  /\ pc = [r \in Runners |-> "NotStarted"]
  /\ applied = [r \in Runners |-> {}]
  /\ files = [r \in Runners |-> << >>]
  /\ idx = [r \in Runners |-> 1]
  /\ cur = [r \in Runners |-> NoFile]
  /\ stmts = [r \in Runners |-> << >>]
  /\ sidx = [r \in Runners |-> 1]
  /\ err = [r \in Runners |-> NoErr]
  /\ attempted = [r \in Runners |-> << >>]
  /\ readLog = [r \in Runners |-> << >>]
  /\ txLog = [r \in Runners |-> << >>]
  /\ stmtCount = [r \in Runners |-> 0]
  /\ txCount = [r \in Runners |-> 0]
  /\ runsLeft = [r \in Runners |-> n]
  /\ lastOutcome = [r \in Runners |-> "none"]
  /\ lastFailed = [r \in Runners |-> NoFile]
  /\ log = [r \in Runners |-> << >>]

InitSplitIdle ==
  /\ sql = << >>
  /\ lex = LexInit
  /\ ret = NotReturned

\* one runner, an empty database
Init == InitDb /\ InitRunners({1}, MaxRuns) /\ dirExists \in BOOLEAN /\ InitSplitIdle

(***************************************************************************)
(* runMigrations                                                           *)
(***************************************************************************)
\* a process calls runMigrations()
Start(r) ==
  /\ pc[r] = "NotStarted"
  /\ runsLeft[r] > 0
  /\ runsLeft' = [runsLeft EXCEPT ![r] = @ - 1]
  /\ pc' = [pc EXCEPT ![r] = "EnsuringLedger"]
  /\ UNCHANGED <<splitVars, dbVars, active, dirExists, held, applied, files, idx, cur, stmts,
                 sidx, err, attempted, readLog, txLog, stmtCount, txCount, lastOutcome,
                 lastFailed, log>>

\* await ensureMigrationsTable(): CREATE TABLE IF NOT EXISTS, or the query rejects
ensureMigrationsTable(r) ==
  /\ pc[r] = "EnsuringLedger"
  /\ \E ok \in BOOLEAN :
       IF ok
       THEN /\ tableExists' = TRUE
            /\ pc' = [pc EXCEPT ![r] = "Loading"]
            /\ err' = err
       ELSE /\ tableExists' = tableExists
            /\ pc' = [pc EXCEPT ![r] = "Failed"]
            /\ err' = [err EXCEPT ![r] = StorageErr("ensureMigrationsTable", NoFile)]
  /\ UNCHANGED <<splitVars, commits, ledger, schema, tx, active, dirExists, held, applied,
                 files, idx,
                 cur, stmts, sidx, attempted, readLog, txLog, stmtCount, txCount, runsLeft,
                 lastOutcome, lastFailed, log>>

MissingDirThrows(exists) == IF exists THEN "Applying" ELSE "Failed"

\* if (!fs.existsSync(MIGRATIONS_DIR)) { console.log(...); return; }
DirCheck(exists) == IF exists THEN "Applying" ELSE "Completed"

\* await getAppliedMigrations(), then existsSync, readdirSync, filter and sort
getAppliedMigrations(r) ==
  /\ pc[r] = "Loading"
  /\ \E ok \in BOOLEAN, listing \in Listings :
       IF ok /\ tableExists
       THEN /\ applied' = [applied EXCEPT ![r] = Names(ledger)]
            /\ err' = err
            /\ pc' = [pc EXCEPT ![r] = DirCheck(dirExists)]
            /\ IF dirExists
               THEN /\ files' = [files EXCEPT ![r] = Sort(FilterSql(listing))]
                    /\ idx' = [idx EXCEPT ![r] = 1]
               ELSE UNCHANGED <<files, idx>>
       ELSE /\ pc' = [pc EXCEPT ![r] = "Failed"]
            /\ err' = [err EXCEPT ![r] = StorageErr("getAppliedMigrations", NoFile)]
            /\ UNCHANGED <<applied, files, idx>>
  /\ UNCHANGED <<splitVars, dbVars, active, dirExists, held, cur, stmts, sidx, attempted,
                 readLog, txLog, stmtCount, txCount, runsLeft, lastOutcome,
                 lastFailed, log>>

SkipNothing(set, f) == FALSE

\* applied.has(file)
AppliedHas(set, f) == f \in set

ReadErrorCaught(readable) == "GetConnection"

\* fs.readFileSync is the first line of applyMigrationFile, outside any try: when it
\* throws, db.getConnection() is not reached and the exception leaves runMigrations
AfterRead(readable) == IF readable THEN "GetConnection" ELSE "Failed"

LoopDoneBeforeLast(r) == idx[r] >= Len(files[r])

\* for (const file of files) has no file left
LoopDone(r) == idx[r] > Len(files[r])

\* one iteration of for (const file of files), up to the first await of applyMigrationFile
NextFile(r) ==
  /\ pc[r] = "Applying"
  /\ IF LoopDone(r)
     THEN /\ pc' = [pc EXCEPT ![r] = "Completed"]
          /\ UNCHANGED <<idx, cur, stmts, sidx, err, attempted, readLog, txLog, log>>
     ELSE IF AppliedHas(applied[r], files[r][idx[r]])
     THEN /\ idx' = [idx EXCEPT ![r] = @ + 1]
          /\ UNCHANGED <<pc, cur, stmts, sidx, err, attempted, readLog, txLog, log>>
     ELSE LET f == files[r][idx[r]]
          IN  /\ attempted' = [attempted EXCEPT ![r] = Append(@, f)]
              /\ readLog' = [readLog EXCEPT ![r] = Append(@, f)]
              /\ cur' = [cur EXCEPT ![r] = f]
              /\ txLog' = [txLog EXCEPT ![r] = << >>]
              /\ log' = [log EXCEPT ![r] = << >>]
              /\ sidx' = [sidx EXCEPT ![r] = 1]
              /\ idx' = idx
              /\ \E readable \in BOOLEAN :
                   /\ pc' = [pc EXCEPT ![r] = AfterRead(readable)]
                   /\ IF readable
                      THEN /\ stmts' = [stmts EXCEPT ![r] = splitSqlStatements(FileText(f))]
                           /\ err' = err
                      ELSE /\ stmts' = stmts
                           /\ err' = [err EXCEPT ![r] = ReadErr(f)]
  /\ UNCHANGED <<splitVars, dbVars, active, dirExists, held, applied, files, stmtCount,
                 txCount, runsLeft, lastOutcome, lastFailed>>

(***************************************************************************)
(* applyMigrationFile.  The database is the transactional store the engine *)
(* consumes: what a connection does between beginTransaction and commit    *)
(* reaches ledger and schema at commit only, and is dropped by rollback or *)
(* when the transaction is abandoned.                                      *)
(***************************************************************************)
\* const conn = await db.getConnection(), outside the try
GetConnection(r) ==
  /\ pc[r] = "GetConnection"
  /\ \E ok \in BOOLEAN :
       IF ok
       THEN /\ held' = [held EXCEPT ![r] = @ + 1]
            /\ pc' = [pc EXCEPT ![r] = "BeginTransaction"]
            /\ err' = err
       ELSE /\ held' = held
            /\ pc' = [pc EXCEPT ![r] = "Failed"]
            /\ err' = [err EXCEPT ![r] = StorageErr("getConnection", cur[r])]
  /\ UNCHANGED <<splitVars, dbVars, active, dirExists, applied, files, idx, cur, stmts, sidx,
                 attempted, readLog, txLog, stmtCount, txCount, runsLeft, lastOutcome,
                 lastFailed, log>>

LoopAtSkipsEmpty(r, k) ==
  IF k <= Len(stmts[r]) THEN "Statement"
  ELSE IF stmts[r] = << >> THEN "Release" ELSE "LedgerInsert"

LoopAtSkipsLast(r, k) == IF k < Len(stmts[r]) THEN "Statement" ELSE "LedgerInsert"

\* where the for loop over statements stands once it has handled statement k - 1
LoopAt(r, k) == IF k <= Len(stmts[r]) THEN "Statement" ELSE "LedgerInsert"

\* await conn.beginTransaction()
BeginTransaction(r) ==
  /\ pc[r] = "BeginTransaction"
  /\ txCount' = [txCount EXCEPT ![r] = @ + 1]
  /\ \E ok \in BOOLEAN :
       IF ok
       THEN /\ tx' = [tx EXCEPT ![r] = [open |-> TRUE, effects |-> {}, inserts |-> << >>]]
            /\ pc' = [pc EXCEPT ![r] = LoopAt(r, 1)]
            /\ err' = err
       ELSE /\ tx' = tx
            /\ pc' = [pc EXCEPT ![r] = "Rollback"]
            /\ err' = [err EXCEPT ![r] = StorageErr("beginTransaction", cur[r])]
  /\ sidx' = [sidx EXCEPT ![r] = 1]
  /\ UNCHANGED <<splitVars, commits, tableExists, ledger, schema, active, dirExists, held, applied,
                 files, idx, cur, stmts, attempted, readLog, txLog, stmtCount, runsLeft,
                 lastOutcome, lastFailed, log>>

SkipRestAfterError(r, k, outcome) == IF outcome = "ok" THEN LoopAt(r, k + 1) ELSE "LedgerInsert"

\* after the catch of statement k did not rethrow: the next iteration
ContinueLoop(r, k, outcome) == LoopAt(r, k + 1)

\* one iteration of for (const stmt of statements): await conn.query(stmt) and its catch
ExecStatement(r) ==
  /\ pc[r] = "Statement"
  /\ LET k == sidx[r]
     IN  IF stmts[r][k] = << >>
         THEN \* if (!stmt) continue;
              /\ pc' = [pc EXCEPT ![r] = LoopAt(r, k + 1)]
              /\ sidx' = [sidx EXCEPT ![r] = k + 1]
              /\ UNCHANGED <<tx, err, txLog, stmtCount, log>>
         ELSE /\ stmtCount' = [stmtCount EXCEPT ![r] = @ + 1]
              /\ \E outcome \in Outcomes :
                   /\ txLog' = [txLog EXCEPT ![r] = Append(@, <<k, outcome>>)]
                   /\ IF outcome = "ok"
                      THEN /\ tx' = [tx EXCEPT ![r].effects = @ \cup {<<cur[r], k>>}]
                           /\ pc' = [pc EXCEPT ![r] = ContinueLoop(r, k, outcome)]
                           /\ sidx' = [sidx EXCEPT ![r] = k + 1]
                           /\ UNCHANGED <<err, log>>
                      ELSE IF IsTolerable(outcome)
                      THEN \* console.log('Skipping (already applied): ...')
                           /\ log' = [log EXCEPT ![r] = Append(@, LineSkipping(cur[r], outcome))]
                           /\ pc' = [pc EXCEPT ![r] = ContinueLoop(r, k, outcome)]
                           /\ sidx' = [sidx EXCEPT ![r] = k + 1]
                           /\ UNCHANGED <<tx, err>>
                      ELSE \* throw err
                           /\ pc' = [pc EXCEPT ![r] = "Rollback"]
                           /\ err' = [err EXCEPT ![r] = StatementErr(outcome, cur[r], k)]
                           /\ UNCHANGED <<tx, sidx, log>>
  /\ UNCHANGED <<splitVars, commits, tableExists, ledger, schema, active, dirExists, held, applied,
                 files, idx, cur, stmts, attempted, readLog, txCount, runsLeft, lastOutcome,
                 lastFailed>>

InsertFailureIgnored(ok) == "Commit"

\* the INSERT is inside the try: when it rejects, the catch rolls back
AfterInsert(ok) == IF ok THEN "Commit" ELSE "Rollback"

InsertNoUnique(rows, pending, name) == [inserts |-> Append(pending, name), code |-> "ok"]

\* INSERT IGNORE INTO _migrations (name) VALUES (?) against name VARCHAR(255) NOT NULL UNIQUE:
\* the rows the transaction has inserted afterwards, and the error code of the statement
InsertIgnore(rows, pending, name) ==
  IF name \in Names(rows) \cup Names(pending)
  THEN [inserts |-> pending, code |-> "ok"]
  ELSE [inserts |-> Append(pending, name), code |-> "ok"]

\* the unique index makes an insert wait for a transaction that holds the same key uncommitted
KeyFree(r, name) == \A o \in Runners \ {r} : name \notin Names(tx[o].inserts)

\* await conn.query('INSERT IGNORE INTO ...', [fileName])
LedgerInsert(r) ==
  /\ pc[r] = "LedgerInsert"
  /\ KeyFree(r, cur[r])
  /\ \E ok \in BOOLEAN :
       LET res == InsertIgnore(ledger, tx[r].inserts, cur[r])
       IN  /\ pc' = [pc EXCEPT ![r] = AfterInsert(ok /\ res.code = "ok")]
           /\ IF ok /\ res.code = "ok"
              THEN /\ tx' = [tx EXCEPT ![r].inserts = res.inserts]
                   /\ err' = err
              ELSE /\ tx' = tx
                   /\ err' = [err EXCEPT ![r] =
                            IF ok THEN [StorageErr("insert", cur[r]) EXCEPT !.code = res.code]
                                  ELSE StorageErr("insert", cur[r])]
  /\ UNCHANGED <<splitVars, commits, tableExists, ledger, schema, active, dirExists, held,
                 applied, files, idx, cur, stmts, sidx, attempted, readLog, txLog, stmtCount, txCount,
                 runsLeft, lastOutcome, lastFailed, log>>

\* the positions in statements of the conn.query(stmt) calls made, in the order made
Executed(tlog) == [i \in DOMAIN tlog |-> tlog[i][1]]

\* await conn.commit(); console.log('Processed migration:', fileName); return true
Commit(r) ==
  /\ pc[r] = "Commit"
  /\ \E ok \in BOOLEAN :
       IF ok
       THEN /\ schema' = schema \cup tx[r].effects
            /\ ledger' = ledger \o tx[r].inserts
            /\ commits' = commits \cup {<<cur[r], Executed(txLog[r])>>}
            /\ tx' = [tx EXCEPT ![r] = NoTx]
            /\ log' = [log EXCEPT ![r] = Append(@, LineProcessed(cur[r]))]
            /\ pc' = [pc EXCEPT ![r] = "Release"]
            /\ err' = err
       ELSE /\ UNCHANGED <<schema, ledger, tx, commits, log>>
            /\ pc' = [pc EXCEPT ![r] = "Rollback"]
            /\ err' = [err EXCEPT ![r] = StorageErr("commit", cur[r])]
  /\ UNCHANGED <<splitVars, tableExists, active, dirExists, held, applied, files, idx, cur,
                 stmts, sidx, attempted, readLog, txLog, stmtCount, txCount, runsLeft, lastOutcome,
                 lastFailed>>

RolledBackAll(committed, t) == {}

\* what a rollback leaves of the committed effects
RolledBack(committed, t) == committed

ReleaseUnlessRollbackThrew(ok) == IF ok THEN "Release" ELSE "Failed"

\* the finally block runs whether the catch block completed or threw
AfterCatch(ok) == "Release"

\* catch (err) { await conn.rollback(); console.error(...); throw err; }
Rollback(r) ==
  /\ pc[r] = "Rollback"
  /\ schema' = RolledBack(schema, tx[r])
  /\ tx' = [tx EXCEPT ![r] = NoTx]
  /\ \E ok \in BOOLEAN :
       /\ pc' = [pc EXCEPT ![r] = AfterCatch(ok)]
       /\ err' = IF ok THEN err ELSE [err EXCEPT ![r] = StorageErr("rollback", cur[r])]
       /\ log' = IF ok THEN [log EXCEPT ![r] = Append(@, LineFailed(cur[r], err[r].code))]
                       ELSE log
  /\ UNCHANGED <<splitVars, commits, tableExists, ledger, active, dirExists, held, applied,
                 files, idx,
                 cur, stmts, sidx, attempted, readLog, txLog, stmtCount, txCount, runsLeft,
                 lastOutcome, lastFailed>>

ContinueAfterFailure(e) == "Applying"

\* runMigrations has no try around await applyMigrationFile(full, file)
AfterApply(e) == IF e = NoErr THEN "Applying" ELSE "Failed"

ConnectionKept(n) == n

\* conn.release(): the connections the runner holds afterwards
ConnectionReleased(n) == n - 1

\* finally { conn.release(); }, then the return or the throw reaches runMigrations
Release(r) ==
  /\ pc[r] = "Release"
  /\ held' = [held EXCEPT ![r] = ConnectionReleased(@)]
  /\ pc' = [pc EXCEPT ![r] = AfterApply(err[r])]
  /\ idx' = [idx EXCEPT ![r] = IF err[r] = NoErr THEN @ + 1 ELSE @]
  /\ UNCHANGED <<splitVars, dbVars, active, dirExists, applied, files, cur, stmts, sidx, err,
                 attempted, readLog, txLog, stmtCount, txCount, runsLeft, lastOutcome,
                 lastFailed, log>>

\* the process has exited (process.exit(0) or process.exit(1)); node migrate.js is run again
Restart(r) ==
  /\ pc[r] \in Terminal
  /\ runsLeft[r] > 0
  /\ lastOutcome' = [lastOutcome EXCEPT ![r] = pc[r]]
  /\ lastFailed' = [lastFailed EXCEPT ![r] = err[r].file]
  /\ pc' = [pc EXCEPT ![r] = "NotStarted"]
  /\ applied' = [applied EXCEPT ![r] = {}]
  /\ files' = [files EXCEPT ![r] = << >>]
  /\ idx' = [idx EXCEPT ![r] = 1]
  /\ cur' = [cur EXCEPT ![r] = NoFile]
  /\ stmts' = [stmts EXCEPT ![r] = << >>]
  /\ sidx' = [sidx EXCEPT ![r] = 1]
  /\ err' = [err EXCEPT ![r] = NoErr]
  /\ attempted' = [attempted EXCEPT ![r] = << >>]
  /\ readLog' = [readLog EXCEPT ![r] = << >>]
  /\ txLog' = [txLog EXCEPT ![r] = << >>]
  /\ log' = [log EXCEPT ![r] = << >>]
  /\ stmtCount' = [stmtCount EXCEPT ![r] = 0]
  /\ txCount' = [txCount EXCEPT ![r] = 0]
  /\ held' = [held EXCEPT ![r] = 0]
  /\ tx' = [tx EXCEPT ![r] = NoTx]
  /\ UNCHANGED <<splitVars, commits, tableExists, ledger, schema, active, dirExists, runsLeft>>

Next ==
  \E r \in active :
    \/ Start(r)
    \/ ensureMigrationsTable(r)
    \/ getAppliedMigrations(r)
    \/ NextFile(r)
    \/ GetConnection(r)
    \/ BeginTransaction(r)
    \/ ExecStatement(r)
    \/ LedgerInsert(r)
    \/ Commit(r)
    \/ Rollback(r)
    \/ Release(r)
    \/ Restart(r)

Spec == Init /\ [][Next]_vars

\* every await of the run settles: a step that stays possible is taken
SpecLive == Spec /\ WF_vars(Next)

\* two runner processes started against the same empty database
InitRace == InitDb /\ InitRunners(Runners, MaxRaceRuns) /\ dirExists = TRUE /\ InitSplitIdle

SpecRace == InitRace /\ [][Next]_vars

(***************************************************************************)
(* splitSqlStatements run one loop iteration at a time on every input.     *)
(***************************************************************************)
InitSplit ==
  /\ sql \in SplitInputs
  /\ lex = LexInit
  /\ ret = NotReturned
  /\ InitDb
  /\ InitRunners({}, 0)
  /\ dirExists = FALSE

\* for (let i = 0; i < sql.length; i++) { ... }
SplitLoop ==
  /\ ~ret.done
  /\ lex.i < Len(sql)
  /\ lex' = SplitStep(lex, sql)
  /\ UNCHANGED <<sql, ret, dbVars, runVars>>

\* if (current.trim()) statements.push(current.trim()); return statements;
SplitFinish ==
  /\ ~ret.done
  /\ lex.i >= Len(sql)
  /\ ret' = Returned(SplitReturn(lex))
  /\ UNCHANGED <<sql, lex, dbVars, runVars>>

NextSplit == SplitLoop \/ SplitFinish

SpecSplit == InitSplit /\ [][NextSplit]_vars

(***************************************************************************)
(* Properties.                                                             *)
(***************************************************************************)
Last(seq) == seq[Len(seq)]

\* number of rows of the ledger that carry the name
Count(rows, name) == Cardinality({k \in DOMAIN rows : rows[k] = name})

\* an outcome of conn.query(stmt) outside the tolerated class
Fatal(outcome) == outcome # "ok" /\ outcome \notin ToleratedCodes

InTry == {"BeginTransaction", "Statement", "LedgerInsert", "Commit", "Rollback", "Release"}

\* C1: idempotent re-run.  In a run of the single runner that follows a run which
\* completed, no migration statement is executed, no transaction is opened, no
\* source is handed to applyMigrationFile, and the ledger holds the name of every
\* source exactly once.
C1_IdempotentRerun ==
  \A r \in active :
    lastOutcome[r] = "Completed" =>
      /\ stmtCount[r] = 0
      /\ txCount[r] = 0
      /\ attempted[r] = << >>
      /\ held[r] = 0
      /\ \A f \in Sources : Count(ledger, f) = 1

\* a second run has gone through all three sources of a completed first run
C1_Witness ==
  /\ lastOutcome[1] = "Completed"
  /\ pc[1] = "Completed"
  /\ files[1] = <<File01b, File02a, File10>>
  /\ idx[1] = 4
  /\ Len(ledger) = 3

\* C2: fatal error rolls back.  A statement that failed outside the tolerated class
\* is the last statement its migration executed; the applier is then on its way
\* out through rollback, after which the transaction is gone, none of the
\* migration's statement effects is committed and the ledger has no record of it.
C2_FatalRollsBack ==
  \A r \in active :
    \A j \in DOMAIN txLog[r] :
      Fatal(txLog[r][j][2]) =>
        /\ j = Len(txLog[r])
        /\ pc[r] \in {"Rollback", "Release", "Failed"}
        /\ pc[r] \in {"Release", "Failed"} => tx[r] = NoTx
        /\ \A k \in DOMAIN stmts[r] : <<cur[r], k>> \notin schema
        /\ cur[r] \notin Names(ledger)

\* the first statement succeeded, the second failed fatally, the applier has thrown
C2_Witness ==
  /\ pc[1] = "Failed"
  /\ cur[1] = File01b
  /\ txLog[1] = << <<1, "ok">>, <<2, "ER_PARSE_ERROR">> >>
  /\ err[1] = StatementErr("ER_PARSE_ERROR", File01b, 2)

\* C3: the run halts on the first failure.  Once an exception has left
\* applyMigrationFile the run is Failed, the failing source is the last one read
\* and the last one handed to applyMigrationFile, and nothing that sorts after it
\* was read or applied.
C3_HaltsOnFirstFailure ==
  \A r \in active :
    (err[r] # NoErr /\ pc[r] \notin {"Rollback", "Release"}) =>
      /\ pc[r] = "Failed"
      /\ err[r].file # NoFile =>
           /\ attempted[r] # << >> /\ Last(attempted[r]) = err[r].file
           /\ readLog[r] # << >> /\ Last(readLog[r]) = err[r].file
           /\ \A k \in DOMAIN attempted[r] : ~StrLess(err[r].file, attempted[r][k])
           /\ \A k \in DOMAIN readLog[r] : ~StrLess(err[r].file, readLog[r][k])

\* the first source failed; the two later sources were never attempted
C3_Witness ==
  /\ pc[1] = "Failed"
  /\ err[1].kind = "statement"
  /\ err[1].file = File01b
  /\ files[1] = <<File01b, File02a, File10>>
  /\ attempted[1] = <<File01b>>
  /\ readLog[1] = <<File01b>>

\* C4: a tolerated conflict allows continuation.  While no statement of the
\* migration has failed fatally, the statements are executed one after the other
\* in order inside the open transaction, a tolerated error is followed by the next
\* statement, and the loop ends only after the last statement; nothing but a
\* failure of the ledger insert, of the commit or of the rollback after them makes
\* such a migration throw, and when applyMigrationFile returns, the effects of the
\* statements that succeeded are committed and the ledger records the migration.
C4_ToleratedContinues ==
  \A r \in active :
    /\ \A j \in DOMAIN txLog[r] : txLog[r][j][1] = j
    /\ (tx[r].open /\ \A j \in DOMAIN txLog[r] : ~Fatal(txLog[r][j][2])) =>
         /\ pc[r] = "Statement" => sidx[r] = Len(txLog[r]) + 1 /\ sidx[r] <= Len(stmts[r])
         /\ pc[r] # "Statement" => Len(txLog[r]) = Len(stmts[r])
    /\ (txLog[r] # << >> /\ err[r] # NoErr /\ \A j \in DOMAIN txLog[r] : ~Fatal(txLog[r][j][2])) =>
         /\ err[r].kind = "storage"
         /\ err[r].op \in {"insert", "commit", "rollback"}
         /\ Len(txLog[r]) = Len(stmts[r])
    /\ (pc[r] = "Release" /\ err[r] = NoErr) =>
         /\ Len(txLog[r]) = Len(stmts[r])
         /\ \A j \in DOMAIN txLog[r] : txLog[r][j][2] = "ok" => <<cur[r], j>> \in schema
         /\ cur[r] \in Names(ledger)

\* [A (duplicate column), B (succeeds)]: B committed, the migration recorded
C4_Witness ==
  /\ pc[1] = "Release"
  /\ err[1] = NoErr
  /\ cur[1] = File01b
  /\ txLog[1] = << <<1, "ER_DUP_FIELDNAME">>, <<2, "ok">> >>
  /\ schema = {<<File01b, 2>>}
  /\ ledger = <<File01b>>

\* C5: ordering.  The sources handed to applyMigrationFile in one run are strictly
\* ascending in the string order of their names, whatever order readdirSync
\* returned them in.
C5_AscendingOrder ==
  \A r \in active :
    \A i, j \in DOMAIN attempted[r] :
      i < j => StrLess(attempted[r][i], attempted[r][j])

\* all three sources were applied, 01-b before 02-a before 10
C5_Witness ==
  /\ attempted[1] = <<File01b, File02a, File10>>
  /\ pc[1] = "Completed"

\* C6: ledger uniqueness.  With two runners interleaving, the ledger never holds
\* two records of one name; the mark-applied insert on a name that is already
\* recorded adds nothing to the transaction, raises no duplicate-key error, and the
\* commit that follows leaves the ledger as it was.
C6_LedgerUnique ==
  /\ [](\A i, j \in DOMAIN ledger : i # j => ledger[i] # ledger[j])
  /\ [](\A r \in active : err[r].code # "ER_DUP_ENTRY")
  /\ [][\A r \in active :
          /\ (pc[r] = "LedgerInsert" /\ pc'[r] = "Commit" /\ cur[r] \in Names(ledger))
               => tx'[r].inserts = << >>
          /\ (pc[r] = "Commit" /\ pc'[r] # "Commit" /\ cur[r] \in Names(ledger))
               => ledger' = ledger]_vars

\* runner 2 has issued its insert for a source that runner 1 recorded meanwhile
C6_Witness ==
  /\ pc[2] = "Commit"
  /\ cur[2] = File01b
  /\ File01b \notin applied[2]
  /\ File01b \in Names(ledger)
  /\ tx[2].inserts = << >>

\* C7: connection release.  A runner holds one connection exactly while it is
\* between getConnection and the finally block of applyMigrationFile, never more
\* than one, never a negative number, and none once applyMigrationFile has
\* returned or thrown, whichever way it left.
C7_ConnectionReleased ==
  \A r \in active :
    /\ held[r] \in {0, 1}
    /\ held[r] = 1 <=> pc[r] \in InTry

\* rollback itself threw, and the connection is back in the pool
C7_Witness ==
  /\ pc[1] = "Failed"
  /\ err[1] = StorageErr("rollback", File01b)
  /\ held[1] = 0

\* C8: earlier migrations are untouched by a later failure.  A step in which a
\* runner raises or handles a failure changes neither the committed effects nor
\* the ledger, and no step ever removes a committed effect or a ledger record.
C8_EarlierUntouched ==
  [][/\ \A r \in active :
          (pc'[r] \in {"Rollback", "Failed"} \/ pc[r] = "Rollback"
             \/ (pc[r] = "Release" /\ err[r] # NoErr))
            => (schema' = schema /\ ledger' = ledger)
     /\ schema \subseteq schema'
     /\ Len(ledger) <= Len(ledger') /\ SubSeq(ledger', 1, Len(ledger)) = ledger]_vars

\* the last source failed after the first was committed and recorded
C8_Witness ==
  /\ pc[1] = "Failed"
  /\ err[1].file = File10
  /\ err[1].kind = "statement"
  /\ ledger = <<File01b, File02a>>
  /\ schema = {<<File01b, 1>>, <<File01b, 2>>}

\* the character the loop is at
Ch == At(sql, lex.i)

\* the loop of splitSqlStatements is about to run an iteration
Looping == ~ret.done /\ lex.i < Len(sql)

\* C9: quoted text is opaque to the splitter.  An iteration that starts with a
\* quote state active and reads ; - / or * appends that character to the current
\* statement and changes nothing else: no statement ends, no comment starts.
\* SELECT 'a;b'; SELECT 1; yields exactly SELECT 'a;b' and SELECT 1.
C9_QuotedOpaque ==
  /\ [][(Looping /\ InQuote(lex) /\ Ch \in {";", "-", "/", "*"})
          => lex' = [lex EXCEPT !.current = Append(@, Ch), !.i = @ + 1]]_vars
  /\ []((sql = TextQuoted /\ ret.done) => ret.value = <<StmtSelectQuoted, StmtSelect1>>)

\* the ; of 'a;b' has been read inside the single-quoted string and kept
C9_Witness ==
  /\ sql = TextQuoted
  /\ lex.inSingle
  /\ lex.statements = << >>
  /\ lex.current = <<"S","E","L","E","C","T"," ","'","a",";">>

\* a "--;" b \nc
StmtMixed1 == <<"a"," ","\"","-","-",";","\""," ","b"," ","\n","c">>

\* BT/*BT
StmtMixed2 == <<Backtick,"/","*",Backtick>>

\* C10: line comments.  Outside quotes and comments, -- starts a line comment and
\* both characters are dropped; inside the comment every character other than the
\* newline is dropped without ending a statement or changing a quote state; the
\* newline ends the comment and is kept in the buffer.  -- comment\nSELECT 1; yields
\* SELECT 1, and text before and after a comment stays separated by the newline.
C10_LineComment ==
  /\ [][/\ (Looping /\ ~InQuote(lex) /\ ~lex.inLineComment /\ ~lex.inBlockComment
              /\ Ch = "-" /\ At(sql, lex.i + 1) = "-")
             => lex' = [lex EXCEPT !.inLineComment = TRUE, !.i = @ + 2]
        /\ (Looping /\ lex.inLineComment /\ Ch # "\n")
             => lex' = [lex EXCEPT !.i = @ + 1]
        /\ (Looping /\ lex.inLineComment /\ Ch = "\n")
             => lex' = [lex EXCEPT !.inLineComment = FALSE, !.current = Append(@, "\n"),
                                   !.i = @ + 1]]_vars
  /\ []((sql = TextLineComment /\ ret.done) => ret.value = <<StmtSelect1>>)
  /\ []((sql = TextMixed /\ ret.done) => ret.value = <<StmtMixed1, StmtMixed2>>)
  /\ []((sql = <<"a", "-", "-", ";">> /\ ret.done) => ret.value = << <<"a">> >>)

\* the comment of -- comment\nSELECT 1; was dropped and SELECT 1 returned
C10_Witness ==
  /\ sql = TextLineComment
  /\ ret = Returned(<<StmtSelect1>>)

\* C11: block comments.  Outside quotes and comments, /* starts a block comment and
\* both characters are dropped; inside the comment every character is dropped
\* without ending a statement or changing a quote state, until the next */ ends
\* the comment and is dropped as well.  SELECT 1; /* x; y */ SELECT 2; yields
\* SELECT 1 and SELECT 2.
C11_BlockComment ==
  /\ [][/\ (Looping /\ ~InQuote(lex) /\ ~lex.inLineComment /\ ~lex.inBlockComment
              /\ Ch = "/" /\ At(sql, lex.i + 1) = "*")
             => lex' = [lex EXCEPT !.inBlockComment = TRUE, !.i = @ + 2]
        /\ (Looping /\ lex.inBlockComment /\ ~(Ch = "*" /\ At(sql, lex.i + 1) = "/"))
             => lex' = [lex EXCEPT !.i = @ + 1]
        /\ (Looping /\ lex.inBlockComment /\ Ch = "*" /\ At(sql, lex.i + 1) = "/")
             => lex' = [lex EXCEPT !.inBlockComment = FALSE, !.i = @ + 2]]_vars
  /\ []((sql = TextBlockComment /\ ret.done) => ret.value = <<StmtSelect1, StmtSelect2>>)
  /\ []((sql = <<"/", "*", "*", "/">> /\ ret.done) => ret.value = << >>)
  /\ []((sql = <<"a", "/", "*", "'">> /\ ret.done) => ret.value = << <<"a">> >>)

\* the comment of SELECT 1; /* x; y */ SELECT 2; was dropped, its ; included
C11_Witness ==
  /\ sql = TextBlockComment
  /\ ret = Returned(<<StmtSelect1, StmtSelect2>>)

\* a statement as the splitter may return it: not empty, no whitespace at either end
WellShaped(s) == s # << >> /\ Head(s) \notin Whitespace /\ s[Len(s)] \notin Whitespace

IsPrefix(a, b) == Len(a) <= Len(b) /\ SubSeq(b, 1, Len(a)) = a

\* C12: splitter output shape.  Every statement collected or returned is non-empty
\* and trimmed; statements are only ever appended, in the order their terminators
\* are read, each being the trimmed buffer at a ; read outside quotes and comments
\* (or at the end of input); a ; read while no quote state is active is never put
\* into the buffer; empty segments such as ;; produce no entry.
C12_OutputShape ==
  /\ [](\A k \in DOMAIN lex.statements : WellShaped(lex.statements[k]))
  /\ [](\A k \in DOMAIN ret.value : WellShaped(ret.value[k]))
  /\ [][/\ IsPrefix(lex.statements, lex'.statements)
        /\ IsPrefix(lex.statements, ret'.value) \/ ~ret'.done
        /\ lex'.statements # lex.statements =>
             /\ Ch = ";" /\ ~InQuote(lex) /\ ~lex.inLineComment /\ ~lex.inBlockComment
             /\ lex'.statements = Append(lex.statements, Trim(lex.current))
        /\ (Looping /\ Ch = ";" /\ ~InQuote(lex)) =>
             lex'.current \in {<< >>, lex.current}]_vars
  /\ []((sql = <<";", ";">> /\ ret.done) => ret.value = << >>)
  /\ []((sql = <<"a", ";", ";", "a">> /\ ret.done) => ret.value = << <<"a">>, <<"a">> >>)

\* \na;; was split into the single statement a
C12_Witness ==
  /\ sql = <<"\n", "a", ";", ";">>
  /\ ret = Returned(<< <<"a">> >>)

\* C13: trailing statement.  At the end of input the buffer, trimmed, is returned as
\* the last statement if it holds a character that is not whitespace, and nothing
\* is added if it is empty or whitespace only.  SELECT 1; SELECT 2 yields SELECT 1
\* and SELECT 2.
C13_TrailingStatement ==
  /\ [][(~ret.done /\ ret'.done) =>
          ret'.value =
            IF \E k \in DOMAIN lex.current : lex.current[k] \notin Whitespace
            THEN Append(lex.statements, Trim(lex.current))
            ELSE lex.statements]_vars
  /\ []((sql = TextTrailing /\ ret.done) => ret.value = <<StmtSelect1, StmtSelect2>>)
  /\ []((sql = <<"a", ";", "\n">> /\ ret.done) => ret.value = << <<"a">> >>)
  /\ []((sql = <<"a", ";", "\n", "a">> /\ ret.done) => ret.value = << <<"a">>, <<"a">> >>)

\* SELECT 2, which has no ; after it, was returned as the last statement
C13_Witness ==
  /\ sql = TextTrailing
  /\ lex.current = <<" ">> \o StmtSelect2
  /\ ret = Returned(<<StmtSelect1, StmtSelect2>>)

\* statements.join(';')
RECURSIVE JoinSemi(_)
JoinSemi(seq) ==
  IF seq = << >> THEN << >>
  ELSE IF Len(seq) = 1 THEN seq[1]
  ELSE seq[1] \o <<";">> \o JoinSemi(Tail(seq))

\* the splitter, run on sql from st, enters a comment state
RECURSIVE EntersComment(_, _)
EntersComment(st, text) ==
  \/ st.inLineComment
  \/ st.inBlockComment
  \/ st.i < Len(text) /\ EntersComment(SplitStep(st, text), text)

Prev == At(sql, lex.i - 1)

\* an iteration outside comments is about to read the character c
Reads(c) == Looping /\ ~lex.inLineComment /\ ~lex.inBlockComment /\ Ch = c

\* C15: quote toggling rule.  Outside comments, a quote character toggles its own
\* quote state if and only if the input character just before it is not a
\* backslash and neither of the other two quote states is active, and it never
\* changes the other two states; the second quote of '\' does not close the string.
C15_QuoteToggle ==
  /\ [][/\ Reads("'") =>
             /\ (lex'.inSingle # lex.inSingle)
                  <=> (Prev # "\\" /\ ~lex.inDouble /\ ~lex.inBacktick)
             /\ lex'.inDouble = lex.inDouble /\ lex'.inBacktick = lex.inBacktick
        /\ Reads("\"") =>
             /\ (lex'.inDouble # lex.inDouble)
                  <=> (Prev # "\\" /\ ~lex.inSingle /\ ~lex.inBacktick)
             /\ lex'.inSingle = lex.inSingle /\ lex'.inBacktick = lex.inBacktick
        /\ Reads(Backtick) =>
             /\ (lex'.inBacktick # lex.inBacktick)
                  <=> (Prev # "\\" /\ ~lex.inSingle /\ ~lex.inDouble)
             /\ lex'.inSingle = lex.inSingle /\ lex'.inDouble = lex.inDouble]_vars
  /\ []((sql = <<"'", "\\", "'">> /\ lex.i = 3) => lex.inSingle)

\* '\' has been read to its end and the single-quoted string is still open
C15_Witness ==
  /\ sql = <<"'", "\\", "'">>
  /\ lex.i = 3
  /\ lex.inSingle
  /\ lex.current = sql

\* C16: ledger write ordering.  The ledger insert of a migration is made in the
\* open transaction of the connection the runner holds, only once every statement
\* of the migration has been executed or tolerated; it reaches the ledger at the
\* commit of that transaction, together with the statements' effects, and at no
\* other step; before and during the statements nothing of the migration is in the
\* ledger or among the transaction's inserts.
C16_LedgerWriteOrdering ==
  /\ [](\A r \in active :
          /\ tx[r].inserts # << >> =>
               /\ tx[r].open /\ held[r] = 1
               /\ pc[r] \in {"Commit", "Rollback"}
               /\ tx[r].inserts = <<cur[r]>>
               /\ Len(txLog[r]) = Len(stmts[r])
               /\ \A j \in DOMAIN txLog[r] : txLog[r][j][1] = j /\ ~Fatal(txLog[r][j][2])
          /\ pc[r] \in {"BeginTransaction", "Statement", "LedgerInsert"} =>
               /\ tx[r].inserts = << >>
               /\ cur[r] \notin Names(ledger))
  /\ [][/\ ledger' # ledger =>
             \E r \in active :
               /\ pc[r] = "Commit" /\ pc'[r] = "Release"
               /\ ledger' = ledger \o tx[r].inserts
               /\ schema' = schema \cup tx[r].effects
        /\ \A r \in active :
             (pc[r] = "LedgerInsert" /\ pc'[r] = "Commit") =>
               /\ ledger' = ledger
               /\ tx'[r] = [tx[r] EXCEPT !.inserts = <<cur[r]>>]]_vars

\* both statements of 01-b.sql are done, its record is in the transaction, the
\* commit is still to come
C16_Witness ==
  /\ pc[1] = "Commit"
  /\ cur[1] = File01b
  /\ txLog[1] = << <<1, "ok">>, <<2, "ok">> >>
  /\ tx[1] = [open |-> TRUE, effects |-> {<<File01b, 1>>, <<File01b, 2>>}, inserts |-> <<File01b>>]
  /\ ledger = << >>

\* C17 as claimed: when a storage error of ensureMigrationsTable, of
\* getAppliedMigrations, of the connection acquisition or of the ledger insert is
\* raised, no migration statement has been executed in that run.
C17_StorageBeforeAnyMigration ==
  \A r \in active :
    (err[r].kind = "storage"
       /\ err[r].op \in {"ensureMigrationsTable", "getAppliedMigrations", "getConnection", "insert"})
      => stmtCount[r] = 0

\* C17: storage errors are fatal.  A storage error always puts the run on its way to
\* Failed, never back into the loop over the sources; when it comes from
\* ensureMigrationsTable or getAppliedMigrations the run is Failed at once and no
\* source was read or handed to applyMigrationFile, no transaction was opened and
\* no migration statement was executed in that run.
C17_StorageFatal ==
  \A r \in active :
    err[r].kind = "storage" =>
      /\ pc[r] \in {"Rollback", "Release", "Failed"}
      /\ err[r].op \in {"ensureMigrationsTable", "getAppliedMigrations"} =>
           /\ pc[r] = "Failed"
           /\ stmtCount[r] = 0 /\ txCount[r] = 0 /\ held[r] = 0
           /\ attempted[r] = << >> /\ readLog[r] = << >>

\* the ledger could not be read: the run failed before any source was looked at
C17_Witness ==
  /\ pc[1] = "Failed"
  /\ err[1] = StorageErr("getAppliedMigrations", NoFile)
  /\ tableExists
  /\ attempted[1] = << >>
  /\ stmtCount[1] = 0

\* what the promise of runMigrations() rejects with once the run is Failed
Caught(r) == ErrorObject(err[r])

\* the last statement the migration executed failed outside the tolerated class
FailedFatally(r) == txLog[r] # << >> /\ Fatal(Last(txLog[r])[2])

OutsideApply == {"NotStarted", "EnsuringLedger", "Loading", "Completed", "Failed"}

\* C19: missing source directory.  When the migrations directory does not exist a
\* run reads no source, acquires no connection, opens no transaction, executes no
\* migration statement and adds no ledger record, and once the ledger table is
\* ensured and the applied names are loaded it returns successfully: the run fails
\* only on an error of one of these two queries, which come before the check.
C19_MissingDirectoryNoOp ==
  /\ [](~dirExists =>
          /\ ledger = << >> /\ schema = {}
          /\ \A r \in active :
               /\ pc[r] \in OutsideApply
               /\ readLog[r] = << >> /\ attempted[r] = << >>
               /\ held[r] = 0 /\ ~tx[r].open
               /\ stmtCount[r] = 0 /\ txCount[r] = 0
               /\ pc[r] = "Failed" =>
                    err[r].op \in {"ensureMigrationsTable", "getAppliedMigrations"})
  /\ [][\A r \in active :
          (~dirExists /\ pc[r] = "Loading" /\ pc'[r] # "Loading" /\ err'[r] = NoErr)
            => pc'[r] = "Completed"]_vars

\* a run over a missing directory has returned successfully, the ledger table
\* created and nothing else done
C19_Witness ==
  /\ ~dirExists
  /\ pc[1] = "Completed"
  /\ tableExists
  /\ ledger = << >>
  /\ readLog[1] = << >>
  /\ held[1] = 0

\* the state of the run in the machine NotStarted, EnsuringLedger, Loading,
\* Applying(i), Completed, Failed: the steps of applyMigrationFile for the i-th
\* file belong to Applying(i)
RunState(p, i) == IF p \in OutsideApply THEN <<p, 0>> ELSE <<"Applying", i>>

\* the moves of the machine
Forward(p, q) ==
  \/ p[1] = "NotStarted" /\ q[1] = "EnsuringLedger"
  \/ p[1] = "EnsuringLedger" /\ q[1] \in {"Loading", "Failed"}
  \/ p[1] = "Loading" /\ (q = <<"Applying", 1>> \/ q[1] \in Terminal)
  \/ p[1] = "Applying" /\ (q = <<"Applying", p[2] + 1>> \/ q[1] \in Terminal)

\* every file of the run was skipped as already applied, or was handed to
\* applyMigrationFile and is recorded
AllSourcesDone(r) ==
  \A k \in DOMAIN files[r] :
    \/ files[r][k] \in applied[r]
    \/ files[r][k] \in Names(attempted[r]) /\ files[r][k] \in Names(ledger)

\* C20: run state machine and termination.  A run only stays in its state or moves
\* forward through NotStarted, EnsuringLedger, Loading, Applying(1), Applying(2),
\* ... to Completed or Failed; a terminal state is left only by starting the
\* process again, and in it the run holds no connection and no transaction and
\* changes nothing in the database; Completed is reached only with no error and
\* every source skipped as applied or applied and recorded; and, every operation
\* returning, a started run reaches Completed or Failed.
C20_RunStateMachine ==
  /\ [](\A r \in active :
          /\ pc[r] \in Terminal => held[r] = 0 /\ ~tx[r].open
          /\ pc[r] = "Completed" => err[r] = NoErr /\ AllSourcesDone(r)
          /\ pc[r] = "Failed" => err[r] # NoErr)
  /\ [][\A r \in active :
          LET p == RunState(pc[r], idx[r])
              q == RunState(pc'[r], idx'[r])
          IN  /\ pc[r] \notin Terminal => (q = p \/ Forward(p, q))
              /\ pc[r] \in Terminal =>
                   /\ pc'[r] \in {pc[r], "NotStarted"}
                   /\ UNCHANGED <<tableExists, ledger, schema, held>>
                   /\ tx'[r] = tx[r]]_vars
  /\ (pc[1] \notin Terminal /\ pc[1] # "NotStarted") ~> (pc[1] \in Terminal)

\* a run went through Applying(1), Applying(2) and Applying(3) and completed
C20_Witness ==
  /\ pc[1] = "Completed"
  /\ Len(files[1]) = 3
  /\ idx[1] = 4
  /\ Len(attempted[1]) = 3
  /\ Names(ledger) = Sources

\* the lines of the sequence with the given heading
LinesOf(lines, heading) == SelectSeq(lines, LAMBDA l : l.line = heading)

\* the statement outcomes of the call that were tolerated errors
ToleratedIn(tlog) == SelectSeq(tlog, LAMBDA e : e[2] \in ToleratedCodes)

\* the error that made the call fail: the fatal statement's, else the exception in flight
Underlying(r) == IF FailedFatally(r) THEN Last(txLog[r])[2] ELSE err[r].code

\* the last call of applyMigrationFile has committed
Processed(r) ==
  cur[r] # NoFile /\ err[r] = NoErr /\ pc[r] \in {"Release", "Applying", "Completed"}

\* an exception raised inside applyMigrationFile is leaving it or has reached the caller
Propagating(r) == pc[r] \in {"Release", "Failed"} /\ err[r] # NoErr /\ err[r].file # NoFile

\* one success line, written by the call that committed
SuccessLine(r) ==
  /\ Len(LinesOf(log[r], "Processed migration")) = (IF Processed(r) THEN 1 ELSE 0)
  /\ Processed(r) => Last(log[r]) = LineProcessed(cur[r])

\* one line per tolerated statement error, in order, naming the file and the error
ToleratedLines(r) ==
  LET skipped == LinesOf(log[r], "Skipping (already applied)")
      tolerated == ToleratedIn(txLog[r])
  IN  /\ Len(skipped) = Len(tolerated)
      /\ \A k \in DOMAIN skipped : skipped[k] = LineSkipping(cur[r], tolerated[k][2])

\* a failing call has written, last, the line naming the file and the underlying error
FailureLine(r) ==
  Propagating(r) =>
    /\ log[r] # << >>
    /\ Last(log[r]) = LineFailed(cur[r], Underlying(r))

\* C21 as claimed: logging surface.  A call of applyMigrationFile that succeeded
\* has written exactly one success line, it writes one line naming the file for
\* each tolerated statement error, and whenever it fails the last line it wrote
\* names the file and the underlying error.
C21_LoggingSurface ==
  \A r \in active : SuccessLine(r) /\ ToleratedLines(r) /\ FailureLine(r)

\* runner r takes the step of conn.query(stmt) and its catch for statement sidx[r]
Queries(r) == pc[r] = "Statement" /\ Len(txLog'[r]) = Len(txLog[r]) + 1

\* the catch of the statement swallowed the error: a line logged, no exception in
\* flight, the loop at the next statement
Swallowed(r) ==
  /\ err'[r] = NoErr
  /\ sidx'[r] = sidx[r] + 1
  /\ pc'[r] = LoopAt(r, sidx[r] + 1)
  /\ log'[r] = Append(log[r], LineSkipping(cur[r], Last(txLog'[r])[2]))

\* the catch of the statement rethrew the error to the outer catch
Rethrown(r) ==
  /\ err'[r] = StatementErr(Last(txLog'[r])[2], cur[r], sidx[r])
  /\ pc'[r] = "Rollback"
  /\ log'[r] = log[r]

\* C22: error classification.  A statement error is swallowed inside
\* applyMigrationFile, logged and followed by the next statement, if and only if
\* its code is ER_DUP_FIELDNAME, ER_TABLE_EXISTS_ERROR, ER_DUP_KEYNAME or
\* ER_CANT_DROP_FIELD_OR_KEY; every other statement error is rethrown; and the
\* exception of a statement that a run carries never has a tolerated code.
C22_ErrorClassification ==
  /\ [](\A r \in active :
          err[r].kind = "statement" => err[r].code \notin
            {"ER_DUP_FIELDNAME", "ER_TABLE_EXISTS_ERROR", "ER_DUP_KEYNAME",
             "ER_CANT_DROP_FIELD_OR_KEY"})
  /\ [][\A r \in active :
          (Queries(r) /\ Last(txLog'[r])[2] # "ok") =>
            LET code == Last(txLog'[r])[2]
                listed == code \in {"ER_DUP_FIELDNAME", "ER_TABLE_EXISTS_ERROR",
                                    "ER_DUP_KEYNAME", "ER_CANT_DROP_FIELD_OR_KEY"}
            IN  /\ Swallowed(r) <=> listed
                /\ Rethrown(r) <=> ~listed]_vars

\* the first statement of 01-b.sql failed with a tolerated code and the second with
\* ER_NO_SUCH_TABLE, which is not in the list: one line logged, the error on its way out
C22_Witness ==
  /\ pc[1] = "Rollback"
  /\ txLog[1] = << <<1, "ER_CANT_DROP_FIELD_OR_KEY">>, <<2, "ER_NO_SUCH_TABLE">> >>
  /\ log[1] = << LineSkipping(File01b, "ER_CANT_DROP_FIELD_OR_KEY") >>
  /\ err[1] = StatementErr("ER_NO_SUCH_TABLE", File01b, 2)

\* the previous run of r failed inside applyMigrationFile, at the source lastFailed[r]
FailedAtSource(r) == lastOutcome[r] = "Failed" /\ lastFailed[r] # NoFile

\* C23: restart after failure.  In the run of the single runner that follows a run
\* which failed at source k, no source recorded before the failure is handed to
\* applyMigrationFile or has a statement executed, the first source attempted is k,
\* and a run that completes has attempted k and leaves every source recorded
\* exactly once.
C23_RestartAfterFailure ==
  \A r \in active :
    FailedAtSource(r) =>
      /\ \A i \in DOMAIN attempted[r] : attempted[r][i] \notin applied[r]
      /\ pc[r] \in InTry \cup {"GetConnection"} => cur[r] \notin applied[r]
      /\ attempted[r] # << >> => attempted[r][1] = lastFailed[r]
      /\ pc[r] = "Completed" =>
           /\ attempted[r] # << >>
           /\ \A f \in Sources : Count(ledger, f) = 1

\* the first run recorded 01-b.sql and failed at 02-a.sql; the second run started
\* at 02-a.sql and completed with the three sources recorded
C23_Witness ==
  /\ lastOutcome[1] = "Failed"
  /\ lastFailed[1] = File02a
  /\ pc[1] = "Completed"
  /\ attempted[1] = <<File02a, File10>>
  /\ ledger = <<File01b, File02a, File10>>

\* the sources handed to applyMigrationFile before the current one
EarlierAttempted(r) == {attempted[r][i] : i \in 1..(Len(attempted[r]) - 1)}

\* C24: strictly sequential execution.  A run never holds more than one connection
\* nor has a transaction open without it; the open transaction carries the
\* statements and the record of the current source only; a transaction begins with
\* one connection held, none open before it, at most one per source, and every
\* source attempted earlier committed and recorded; and statement k of a migration
\* is issued when the outcomes of the statements before it, and only those, are in.
C24_StrictlySequential ==
  /\ [](\A r \in active :
          /\ held[r] \in {0, 1}
          /\ tx[r].open => held[r] = 1
          /\ \A e \in tx[r].effects : e[1] = cur[r]
          /\ \A i \in DOMAIN tx[r].inserts : tx[r].inserts[i] = cur[r]
          /\ txCount[r] <= Len(attempted[r])
          /\ \A i \in DOMAIN txLog[r] : txLog[r][i][1] = i)
  /\ [][\A r \in active :
          /\ (pc[r] = "BeginTransaction" /\ pc'[r] # "BeginTransaction") =>
               /\ held[r] = 1
               /\ ~tx[r].open
               /\ txCount'[r] = Len(attempted[r])
               /\ EarlierAttempted(r) \subseteq Names(ledger)
          /\ Queries(r) =>
               /\ Len(txLog[r]) = sidx[r] - 1
               /\ Last(txLog'[r])[1] = sidx[r]]_vars

\* the transaction of the third source is open on the only connection held, the
\* first two sources committed and released
C24_Witness ==
  /\ pc[1] = "Statement"
  /\ cur[1] = File10
  /\ attempted[1] = <<File01b, File02a, File10>>
  /\ txCount[1] = 3
  /\ held[1] = 1
  /\ tx[1].open
  /\ Names(ledger) = {File01b, File02a}

\* C25: source read error.  When readFileSync fails for a source the run is failed
\* at that source, the error its own; no connection is held and no transaction was
\* opened or statement executed for it, its name is not in the ledger, it is the
\* last source the run attempted, and the step changes nothing in the database.
C25_SourceReadError ==
  /\ [](\A r \in active :
          err[r].kind = "read" =>
            /\ pc[r] = "Failed"
            /\ err[r] = ReadErr(cur[r])
            /\ Last(attempted[r]) = cur[r] /\ Last(readLog[r]) = cur[r]
            /\ files[r][idx[r]] = cur[r]
            /\ held[r] = 0 /\ ~tx[r].open
            /\ txCount[r] = Len(attempted[r]) - 1
            /\ txLog[r] = << >> /\ log[r] = << >>
            /\ cur[r] \notin Names(ledger))
  /\ [][\A r \in active :
          (err[r].kind # "read" /\ err'[r].kind = "read") =>
            UNCHANGED <<tableExists, ledger, schema, tx, held, stmtCount, txCount>>]_vars

\* 01-b.sql was applied and recorded, then 02-a.sql could not be read: the run is
\* failed with 10.sql never attempted
C25_Witness ==
  /\ pc[1] = "Failed"
  /\ err[1] = ReadErr(File02a)
  /\ attempted[1] = <<File01b, File02a>>
  /\ files[1] = <<File01b, File02a, File10>>
  /\ ledger = <<File01b>>
  /\ txCount[1] = 1

\* the flags of the lexer that are true
FlagsSet(st) ==
  {f \in {"inSingle", "inDouble", "inBacktick", "inLineComment", "inBlockComment"} :
     CASE f = "inSingle" -> st.inSingle
       [] f = "inDouble" -> st.inDouble
       [] f = "inBacktick" -> st.inBacktick
       [] f = "inLineComment" -> st.inLineComment
       [] f = "inBlockComment" -> st.inBlockComment}

\* C26: lexer state exclusivity.  Before and after every iteration of the loop of
\* splitSqlStatements at most one of inLineComment, inBlockComment, inSingle,
\* inDouble and inBacktick is true.
C26_FlagExclusivity == Cardinality(FlagsSet(lex)) <= 1

\* a single quote and then the start of a block comment were read inside a
\* double-quoted string: inDouble is the one flag set
C26_Witness ==
  /\ lex.i = 4
  /\ sql[1] = "\"" /\ sql[2] = "'" /\ sql[3] = "/" /\ sql[4] = "*"
  /\ FlagsSet(lex) = {"inDouble"}

\* the directory entries whose name does not end in .sql
NotSql == {f \in DirEntries : ~EndsWithSql(f)}

\* C27: only .sql files are migration sources.  A directory entry whose name does
\* not end in .sql is never in the list of files, never read, never handed to
\* applyMigrationFile, has no statement committed and is never recorded; and a
\* commit records exactly the name files[idx] that the loop tested against the
\* applied set, so the names a run loads are names of sources, each of which it skips.
C27_OnlySqlSources ==
  /\ [](/\ Names(ledger) \cap NotSql = {}
        /\ Names(ledger) \subseteq DirEntries
        /\ \A e \in schema : e[1] \notin NotSql
        /\ \A r \in active :
             /\ Names(files[r]) \cap NotSql = {}
             /\ Names(readLog[r]) \cap NotSql = {}
             /\ Names(attempted[r]) \cap NotSql = {}
             /\ cur[r] \notin NotSql
             /\ applied[r] \subseteq Sources
             /\ Names(attempted[r]) \cap applied[r] = {})
  /\ [][\A r \in active :
          (pc[r] = "Commit" /\ ledger' # ledger) =>
            /\ ledger' = Append(ledger, files[r][idx[r]])
            /\ ~AppliedHas(applied[r], files[r][idx[r]])
            /\ AppliedHas(Names(ledger'), files[r][idx[r]])]_vars

\* the run completed over a directory that holds 03.sql.bak: the three .sql files
\* are recorded under their names and 03.sql.bak was left alone
C27_Witness ==
  /\ pc[1] = "Completed"
  /\ File03bak \in DirEntries
  /\ files[1] = <<File01b, File02a, File10>>
  /\ readLog[1] = <<File01b, File02a, File10>>
  /\ ledger = <<File01b, File02a, File10>>
  /\ lastOutcome[1] = "none"

\* the sources in the order every run takes them
SortedSources ==
  IF dirExists THEN Sort(FilterSql(CHOOSE l \in Listings : TRUE)) ELSE << >>

\* C28: the applied set is a prefix.  With the set of sources fixed, one runner and
\* the ledger empty at the start, whatever runs have completed or failed so far,
\* the ledger holds the first n sources of the sorted order, each once and in that
\* order, for some n: no source is recorded while one that sorts before it is not.
C28_AppliedPrefix ==
  /\ \E n \in 0..Len(SortedSources) : ledger = SubSeq(SortedSources, 1, n)
  /\ \A f, g \in Sources : (StrLess(f, g) /\ g \in Names(ledger)) => f \in Names(ledger)

\* a first run recorded 01-b.sql and failed at 02-a.sql, the second recorded
\* 02-a.sql and failed at 10.sql: two of the three sources are recorded
C28_Witness ==
  /\ lastOutcome[1] = "Failed"
  /\ lastFailed[1] = File02a
  /\ pc[1] = "Failed"
  /\ cur[1] = File10
  /\ ledger = <<File01b, File02a>>

\* the names for which a transaction has committed
CommittedNames == {c[1] : c \in commits}

\* the statements of the source, as applyMigrationFile splits them
StatementsOf(f) == splitSqlStatements(FileText(f))

\* C29: record and effects commit together.  In every state a name is in the
\* ledger if and only if a transaction for it has committed, every committed
\* transaction executed all the statements of its source in order, none with a
\* fatal outcome, and every persisted effect belongs to a recorded name; a failure
\* of the ledger insert or of the commit, and the rollback that follows, change
\* neither the ledger nor the persisted effects and drop the transaction.
C29_RecordWithEffects ==
  /\ [](/\ Names(ledger) = CommittedNames
        /\ \A c \in commits : c[2] = [i \in 1..Len(StatementsOf(c[1])) |-> i]
        /\ \A e \in schema : e[1] \in Names(ledger))
  /\ [][\A r \in active :
          /\ (pc[r] = "Commit" /\ pc'[r] = "Release") =>
               /\ \A i \in DOMAIN txLog[r] : ~Fatal(txLog[r][i][2])
               /\ cur[r] \in Names(ledger')
               /\ schema' = schema \cup {<<cur[r], txLog[r][i][1]>> :
                                           i \in {j \in DOMAIN txLog[r] : txLog[r][j][2] = "ok"}}
          /\ (pc[r] \in {"LedgerInsert", "Commit"} /\ pc'[r] = "Rollback") =>
               /\ err'[r].op \in {"insert", "commit"}
               /\ UNCHANGED <<ledger, schema, commits>>
          /\ (pc[r] = "Rollback" /\ pc'[r] # "Rollback") =>
               /\ UNCHANGED <<ledger, schema, commits>>
               /\ tx'[r] = NoTx]_vars

\* the commit of 01-b.sql failed after both statements and the insert succeeded, and
\* was rolled back: no record and no effect of it is persisted
C29_Witness ==
  /\ pc[1] = "Failed"
  /\ err[1] = StorageErr("commit", File01b)
  /\ txLog[1] = << <<1, "ok">>, <<2, "ok">> >>
  /\ ledger = << >>
  /\ schema = {}
  /\ tx[1] = NoTx

\* the sources whose text yields no statement
EmptySources == {f \in Sources : StatementsOf(f) = << >>}

\* C30: empty migration.  An empty, a whitespace-only and a comment-only text yield
\* no statements; a source that yields none is still processed: its transaction is
\* opened and goes straight to the ledger insert with no migration statement
\* executed, its commit appends its name to the ledger and changes no effect, it is
\* recorded exactly when such a transaction committed; and, the ledger never
\* losing a name, a run that loaded it as applied does not attempt it.
C30_EmptyMigration ==
  /\ [](/\ splitSqlStatements(<< >>) = << >>
        /\ splitSqlStatements(<<" ", "\n", " ">>) = << >>
        /\ dirExists => File02a \in EmptySources
        /\ \A f \in EmptySources : f \in Names(ledger) <=> <<f, << >> >> \in commits
        /\ \A r \in active :
             /\ (cur[r] \in EmptySources /\ pc[r] \in InTry) =>
                  stmts[r] = << >> /\ txLog[r] = << >> /\ tx[r].effects = {}
             /\ \A f \in EmptySources \cap applied[r] : f \notin Names(attempted[r]))
  /\ [][/\ Names(ledger) \subseteq Names(ledger')
        /\ \A r \in active :
             cur[r] \in EmptySources =>
               /\ (pc[r] = "BeginTransaction" /\ tx'[r].open) =>
                    pc'[r] = "LedgerInsert" /\ stmtCount'[r] = stmtCount[r]
               /\ (pc[r] = "Commit" /\ pc'[r] = "Release") =>
                    ledger' = Append(ledger, cur[r]) /\ schema' = schema]_vars

\* the comment-only 02-a.sql was committed with no statement in a first run that
\* failed at 10.sql; the second run has skipped it and is executing 10.sql
C30_Witness ==
  /\ lastOutcome[1] = "Failed"
  /\ lastFailed[1] = File10
  /\ <<File02a, << >> >> \in commits
  /\ File02a \in applied[1]
  /\ pc[1] = "Statement"
  /\ cur[1] = File10
  /\ attempted[1] = <<File10>>

====
